---------------------------- MODULE Spec2Model ----------------------------
(***************************************************************************)
(* Invariant metrics on Lie groups (geomstats/geometry/invariant_metric.py) *)
(*                                                                         *)
(* The metric classes InvariantMetric and BiInvariantMetric are modelled   *)
(* as a state machine: a metric instance is constructed, operations are    *)
(* called on it, and each call leaves its arguments, its result and the    *)
(* list of collaborator calls it made in the state.                        *)
(*                                                                         *)
(* Numbers are exact rationals <<n, d>> (d > 0, lowest terms): the model   *)
(* abstracts floating-point rounding and keeps everything else.            *)
(***************************************************************************)
EXTENDS Integers, Sequences, FiniteSets, TLC

(***************************************************************************)
(* Exact rational arithmetic (stands for the array backend's scalars).     *)
(***************************************************************************)
Abs(i) == IF i < 0 THEN -i ELSE i

RECURSIVE Gcd(_, _)
Gcd(a, b) == IF b = 0 THEN a ELSE Gcd(b, a % b)

Rat(n, d) ==
    LET g == Gcd(Abs(n), Abs(d))
        s == IF d < 0 THEN -1 ELSE 1
    IN  <<(s * n) \div g, (s * d) \div g>>

\* Python's None (an omitted argument)
None == <<>>

R(i) == <<i, 1>>
Zero == <<0, 1>>
One == <<1, 1>>
Half == <<1, 2>>

\* sums and products cancel common factors before they multiply, so that
\* the intermediate integers stay as small as the result allows
RAdd(a, b) ==
    LET g == Gcd(a[2], b[2])
    IN  Rat(a[1] * (b[2] \div g) + b[1] * (a[2] \div g), a[2] * (b[2] \div g))
RNeg(a) == <<-a[1], a[2]>>
RSub(a, b) == RAdd(a, RNeg(b))
RMul(a, b) ==
    LET g == Gcd(Abs(a[1]), b[2])
        h == Gcd(Abs(b[1]), a[2])
    IN  <<(a[1] \div g) * (b[1] \div h), (a[2] \div h) * (b[2] \div g)>>
RInv(a) == Rat(a[2], a[1])
RDiv(a, b) == RMul(a, RInv(b))
RAbs(a) == <<Abs(a[1]), a[2]>>
RLess(a, b) == a[1] * b[2] < b[1] * a[2]
RLeq(a, b) == a[1] * b[2] <= b[1] * a[2]
RFloor(a) == a[1] \div a[2]

\* numpy.sqrt on a non-negative scalar whose root is rational (the model's
\* metrics are chosen so that every root taken is rational).
\* the integer part of the square root of i, by Newton's iteration from x
RECURSIVE SqrtFrom(_, _)
SqrtFrom(i, x) ==
    IF (x + i \div x) \div 2 >= x THEN x ELSE SqrtFrom(i, (x + i \div x) \div 2)
ISqrt(i) == IF i = 0 THEN 0 ELSE SqrtFrom(i, i)
IsSquare(i) == ISqrt(i) * ISqrt(i) = i
HasRSqrt(a) == a[1] >= 0 /\ IsSquare(a[1]) /\ IsSquare(a[2])
RSqrt(a) == <<ISqrt(a[1]), ISqrt(a[2])>>

\* gs.isclose(x, 0.): |x| <= atol, atol = 1e-8 (numpy's default); written
\* with an integer division so that no product leaves TLC's integers.
IsCloseToZero(a) == Abs(a[1]) <= a[2] \div 100000000

(***************************************************************************)
(* Vectors (sequences of rationals) and matrices (sequences of rows).      *)
(***************************************************************************)
\* A sequence built by a function constructor, evaluated once into a tuple
\* (TLC would otherwise re-evaluate its entries at every use).
T(f) == f \o <<>>

\* The element of a one-element set.  Only({e : x \in {v}}) is e with x bound
\* to the value of v: v is evaluated once, before e.
Only(s) == CHOOSE r \in s : TRUE

RECURSIVE RSumTo(_, _)
RSumTo(f, k) ==
    IF k = 0 THEN Zero
    ELSE Only({RAdd(s, f[k]) : s \in {RSumTo(f, k - 1)}})
RSum(f) == Only({RSumTo(x, Len(x)) : x \in {f}})

VAdd(a, b) == Only({T([i \in 1..Len(x) |-> RAdd(x[i], y[i])]) : x \in {a}, y \in {b}})
VSub(a, b) == Only({T([i \in 1..Len(x) |-> RSub(x[i], y[i])]) : x \in {a}, y \in {b}})
VNeg(a) == Only({T([i \in 1..Len(x) |-> RNeg(x[i])]) : x \in {a}})
VScale(c, a) == Only({T([i \in 1..Len(x) |-> RMul(k, x[i])]) : k \in {c}, x \in {a}})
VZero(n) == T([i \in 1..n |-> Zero])
Dot(a, b) ==
    Only({RSum(T([i \in 1..Len(x) |-> RMul(x[i], y[i])])) : x \in {a}, y \in {b}})

\* einsum('...i,...ij->...j', a, m): row vector times matrix
VecMat(a, m) ==
    Only({T([j \in 1..Len(y[1]) |->
               RSum(T([i \in 1..Len(x) |-> RMul(x[i], y[i][j])]))])
          : x \in {a}, y \in {m}})
\* einsum('...ij,...j->...i', m, a): matrix times column vector
MatVec(m, a) ==
    Only({T([i \in 1..Len(y) |->
               RSum(T([j \in 1..Len(x) |-> RMul(y[i][j], x[j])]))])
          : x \in {a}, y \in {m}})
\* einsum('...ij,...jk->...ik', a, b)
MatMul(a, b) ==
    Only({T([i \in 1..Len(x) |->
               T([k \in 1..Len(y[1]) |->
                   RSum(T([j \in 1..Len(y) |-> RMul(x[i][j], y[j][k])]))])])
          : x \in {a}, y \in {b}})
MAdd(a, b) == Only({T([i \in 1..Len(x) |-> VAdd(x[i], y[i])]) : x \in {a}, y \in {b}})
MSub(a, b) == Only({T([i \in 1..Len(x) |-> VSub(x[i], y[i])]) : x \in {a}, y \in {b}})
MNeg(a) == Only({T([i \in 1..Len(x) |-> VNeg(x[i])]) : x \in {a}})
MScale(c, a) == Only({T([i \in 1..Len(x) |-> VScale(k, x[i])]) : k \in {c}, x \in {a}})
\* elementwise (Hadamard) product a * b
MHad(a, b) ==
    Only({T([i \in 1..Len(x) |-> T([j \in 1..Len(x[i]) |-> RMul(x[i][j], y[i][j])])])
          : x \in {a}, y \in {b}})
\* gs.sum over both matrix axes
MSumAll(a) == Only({RSum(T([i \in 1..Len(x) |-> RSum(x[i])])) : x \in {a}})
MZero(n) == T([i \in 1..n |-> VZero(n)])
Eye(n) == T([i \in 1..n |-> T([j \in 1..n |-> IF i = j THEN One ELSE Zero])])
Transpose(m) ==
    Only({T([j \in 1..Len(x[1]) |-> T([i \in 1..Len(x) |-> x[i][j]])]) : x \in {m}})
IsDiagonal(m) == \A i \in 1..Len(m) : \A j \in 1..Len(m) : i # j => m[i][j] = Zero
IsSymmetric(m) == m = Transpose(m)
Diag(d) == T([i \in 1..Len(d) |-> T([j \in 1..Len(d) |-> IF i = j THEN d[i] ELSE Zero])])

\* a matrix without row i and column j
Minor(m, i, j) ==
    T([r \in 1..(Len(m) - 1) |->
        T([c \in 1..(Len(m) - 1) |->
            m[IF r < i THEN r ELSE r + 1][IF c < j THEN c ELSE c + 1]])])

RECURSIVE Det(_)
Det(m) ==
    IF Len(m) = 1 THEN m[1][1]
    ELSE RSum(T([j \in 1..Len(m) |->
            RMul(IF j % 2 = 1 THEN m[1][j] ELSE RNeg(m[1][j]),
                 Det(Minor(m, 1, j)))]))

IsSingular(m) == Det(m) = Zero

\* GeneralLinear.inverse / gs.linalg.inv: the adjugate over the determinant
MatInverse(m) ==
    IF Len(m) = 1 THEN <<<<RInv(m[1][1])>>>>
    ELSE T([i \in 1..Len(m) |->
            T([j \in 1..Len(m) |->
                RDiv(IF (i + j) % 2 = 0 THEN Det(Minor(m, j, i))
                     ELSE RNeg(Det(Minor(m, j, i))),
                     Det(m))])])

\* GeneralLinear.bracket: the matrix commutator
Bracket(a, b) == MSub(MatMul(a, b), MatMul(b, a))

\* integer coordinates to rational vectors and matrices
IV(s) == T([i \in 1..Len(s) |-> R(s[i])])
IM(s) == T([i \in 1..Len(s) |-> IV(s[i])])

(***************************************************************************)
(* Character strings as sequences of characters, with Python's `in`.       *)
(***************************************************************************)
Contains(s, pat) ==
    \E k \in 0..(Len(s) - Len(pat)) : \A i \in 1..Len(pat) : s[k + i] = pat[i]

STR_SpecialOrthogonal == <<"S", "p", "e", "c", "i", "a", "l", "O", "r", "t", "h", "o", "g", "o", "n", "a", "l">>
STR_SO == <<"S", "O">>
STR_SpecialOrthogonal3 == <<"S", "p", "e", "c", "i", "a", "l", "O", "r", "t", "h", "o", "g", "o", "n", "a", "l", "3">>

(***************************************************************************)
(* The Lie groups handed to the metric.  A group is a record               *)
(*   kind : which group law it has,                                        *)
(*   name : what group.__str__() shows (the class name),                   *)
(*   default_point_type, dim, n (matrix size for matrix groups).           *)
(*                                                                         *)
(*   euclid : R^2 under addition, vector points, regularize the identity   *)
(*   so2    : planar rotations as one angle, regularize wraps the angle    *)
(*            into (-2, 2] (the half turn is 2 units)                      *)
(*   heis   : the Heisenberg group in coordinates (x, y, z) with           *)
(*            (x,y,z)(x',y',z') = (x+x', y+y', z+z'+x*y'), not abelian     *)
(*   gl     : invertible 2x2 matrices, matrix points                       *)
(***************************************************************************)
NAME_Euclidean == <<"E", "u", "c", "l", "i", "d", "e", "a", "n">>
NAME_SO2Vectors == <<"_", "S", "p", "e", "c", "i", "a", "l", "O", "r", "t", "h", "o", "g", "o", "n", "a", "l", "2", "V", "e", "c", "t", "o", "r", "s">>
NAME_SO2 == <<"S", "O", "2">>
NAME_Heisenberg == <<"H", "e", "i", "s", "e", "n", "b", "e", "r", "g", "V", "e", "c", "t", "o", "r", "s">>
NAME_GeneralLinear == <<"G", "e", "n", "e", "r", "a", "l", "L", "i", "n", "e", "a", "r">>
NAME_ISOTranslations == <<"I", "S", "O", "T", "r", "a", "n", "s", "l", "a", "t", "i", "o", "n", "s">>

Group(kind, name, type, dim, n) ==
    [kind |-> kind, name |-> name, default_point_type |-> type, dim |-> dim, n |-> n]

G_Euclid == Group("euclid", NAME_Euclidean, "vector", 2, 0)
G_SO2Vec == Group("so2", NAME_SO2Vectors, "vector", 1, 0)
G_SO2 == Group("so2", NAME_SO2, "vector", 1, 0)
G_Heis == Group("heis", NAME_Heisenberg, "vector", 3, 0)
G_GL == Group("gl", NAME_GeneralLinear, "matrix", 4, 2)
\* the plane's translations under a class name that happens to hold "SO"
G_ISO == Group("euclid", NAME_ISOTranslations, "vector", 2, 0)

\* 2 x 2 invertible matrices under a point type the metric does not know
NAME_Tensors == <<"T", "e", "n", "s", "o", "r", "s">>
G_Tensor == Group("gl", NAME_Tensors, "tensor", 4, 2)

Groups == {G_Euclid, G_SO2Vec, G_SO2, G_Heis, G_GL, G_ISO}

\* whether the group really is a (special) orthogonal group
IsSpecialOrthogonal(g) == g.kind = "so2"

GroupStr(g) == g.name

GroupIdentity(g) ==
    IF g.default_point_type = "matrix" THEN Eye(g.n) ELSE VZero(g.dim)

\* the angle x wrapped into (-2, 2]
WrapAngle(x) ==
    LET k == -RFloor(RDiv(RSub(R(2), x), R(4)))
    IN  RSub(x, R(4 * k))

GroupRegularize(g, x) ==
    IF g.kind = "so2" THEN T([i \in 1..Len(x) |-> WrapAngle(x[i])]) ELSE x

GroupRegularizeTangentVecAtIdentity(g, v) == GroupRegularize(g, v)

GroupCompose(g, a, b) ==
    CASE g.kind = "euclid" -> VAdd(a, b)
      [] g.kind = "so2" -> GroupRegularize(g, VAdd(a, b))
      [] g.kind = "heis" ->
            <<RAdd(a[1], b[1]), RAdd(a[2], b[2]),
              RAdd(RAdd(a[3], b[3]), RMul(a[1], b[2]))>>
      [] g.kind = "gl" -> MatMul(a, b)

GroupInverse(g, a) ==
    CASE g.kind = "euclid" -> VNeg(a)
      [] g.kind = "so2" -> GroupRegularize(g, VNeg(a))
      [] g.kind = "heis" ->
            <<RNeg(a[1]), RNeg(a[2]), RSub(RMul(a[1], a[2]), a[3])>>
      [] g.kind = "gl" -> MatInverse(a)

\* the differential at the identity of the translation by `point`
GroupJacobianTranslation(g, point, left_or_right) ==
    IF g.kind = "heis"
    THEN IF left_or_right = "left"
         THEN <<<<One, Zero, Zero>>, <<Zero, One, Zero>>, <<Zero, point[1], One>>>>
         ELSE <<<<One, Zero, Zero>>, <<Zero, One, Zero>>, <<point[2], Zero, One>>>>
    ELSE Eye(g.dim)

\* group.tangent_translation_map(point, left_or_right, inverse)(tangent_vec)
GroupTangentTranslation(g, point, left_or_right, inverse, tangent_vec) ==
    IF g.default_point_type = "vector"
    THEN LET jac == GroupJacobianTranslation(g, point, left_or_right)
         IN  MatVec(IF inverse THEN MatInverse(jac) ELSE jac, tangent_vec)
    ELSE LET pt == IF inverse THEN GroupInverse(g, point) ELSE point
         IN  IF left_or_right = "left" THEN MatMul(pt, tangent_vec)
             ELSE MatMul(tangent_vec, pt)

\* group.exp / group.log: the group's own exponential and logarithm at the
\* identity (in these coordinates the one-parameter subgroups are lines)
GroupExp(g, v) ==
    IF g.kind = "heis"
    THEN <<v[1], v[2], RAdd(v[3], RMul(Half, RMul(v[1], v[2])))>>
    ELSE GroupRegularize(g, v)

GroupLog(g, p) ==
    IF g.kind = "heis"
    THEN <<p[1], p[2], RSub(p[3], RMul(Half, RMul(p[1], p[2])))>>
    ELSE GroupRegularize(g, p)

\* group.to_tangent: the projection onto the tangent space at base_point;
\* every matrix is tangent to GL(n), every vector to a vector group
GroupToTangent(g, vector, base_point) == vector

\* gs.allclose(a, b) on vectors or matrices: every entry within atol
VClose(a, b) == \A i \in 1..Len(a) : IsCloseToZero(RSub(a[i], b[i]))
AllClose(g, a, b) ==
    IF g.default_point_type = "matrix"
    THEN \A i \in 1..Len(a) : VClose(a[i], b[i])
    ELSE VClose(a, b)

(***************************************************************************)
(* The Lie algebra gl(2) with basis E11, E12, E21, E22.                    *)
(***************************************************************************)
GL2Algebra == [name |-> "gl2"]

E(i, j) == T([r \in 1..2 |-> T([c \in 1..2 |-> IF r = i /\ c = j THEN One ELSE Zero])])
AlgebraBasis == <<E(1, 1), E(1, 2), E(2, 1), E(2, 2)>>

\* lie_algebra.matrix_representation(coefficients)
MatrixRepresentation(coef) ==
    <<<<coef[1], coef[2]>>, <<coef[3], coef[4]>>>>

\* lie_algebra.reshape_metric_matrix(metric_mat): the diagonal weights laid
\* out on the matrix entries they weigh
ReshapeMetricMatrix(m) ==
    LET w == MatrixRepresentation(T([k \in 1..4 |-> m[k][k]]))
    IN  T([i \in 1..2 |-> T([j \in 1..2 |-> RAbs(w[i][j])])])

\* lie_algebra.orthonormal_basis(metric_mat): each basis matrix divided by
\* the norm the (diagonal) metric gives it
OrthonormalBasis(m) ==
    T([k \in 1..4 |-> MScale(RInv(RSqrt(m[k][k])), AlgebraBasis[k])])

(***************************************************************************)
(* Backend linear algebra used by the metric.                              *)
(***************************************************************************)
\* the symmetric matrix eigvalsh reads: the lower triangle, mirrored
SymLower(m) ==
    T([i \in 1..Len(m) |-> T([j \in 1..Len(m) |-> IF j <= i THEN m[i][j] ELSE m[j][i]])])

\* gs.linalg.eigvalsh: diagonal matrices and 2x2 matrices with rational
\* eigenvalues (every metric matrix of the model is one or the other)
Eigvalsh(m) ==
    LET s == SymLower(m)
    IN  IF IsDiagonal(s) THEN T([i \in 1..Len(s) |-> s[i][i]])
        ELSE LET t == RAdd(s[1][1], s[2][2])
                 r == RSqrt(RSub(RMul(t, t), RMul(R(4), Det(s))))
             IN  <<RMul(Half, RSub(t, r)), RMul(Half, RAdd(t, r))>>

Count(f, P(_)) == Cardinality({i \in 1..Len(f) : P(f[i])})
IsPositive(x) == RLess(Zero, x)
IsNegative(x) == RLess(x, Zero)

\* principal square roots of the non-diagonal matrices the model uses, and
\* of their inverses
SqrtmTable ==
    LET a == IM(<<<<2, 1>>, <<1, 2>>>>)
        b == IM(<<<<1, 1>>, <<0, 1>>>>)
    IN  {a, MatInverse(a), b, MatInverse(b)}

HasSqrtm(x) ==
    IF IsDiagonal(x) THEN \A i \in 1..Len(x) : HasRSqrt(x[i][i])
    ELSE \E s \in SqrtmTable : MatMul(s, s) = x

\* gs.linalg.sqrtm: the principal square root
Sqrtm(x) ==
    IF IsDiagonal(x) THEN Diag(T([i \in 1..Len(x) |-> RSqrt(x[i][i])]))
    ELSE CHOOSE s \in SqrtmTable : MatMul(s, s) = x

(***************************************************************************)
(* InvariantMetric.__init__ and BiInvariantMetric.__init__                 *)
(***************************************************************************)
Failure(e) == [ok |-> FALSE, error |-> e]
Success(v) == [ok |-> TRUE, value |-> v]

\* the signature triple of lines 50-60
Signature(metric_mat_at_identity) ==
    LET eigenvalues == Eigvalsh(metric_mat_at_identity)
        n_pos_eigval == Count(eigenvalues, IsPositive)
        n_neg_eigval == Count(eigenvalues, IsNegative)
        n_null_eigval == Count(eigenvalues, IsCloseToZero)
    IN  <<n_pos_eigval, n_null_eigval, n_neg_eigval>>

\* A variant of InvariantMetricInit that stores left_or_right unchecked.
InvariantMetricInit_Unchecked(cls, group, algebra, metric_mat_arg, left_or_right) ==
    LET metric_mat_at_identity ==
            IF metric_mat_arg = None THEN Eye(group.dim) ELSE metric_mat_arg
    IN  Success([cls |-> cls,
                 dim |-> group.dim,
                 group |-> group,
                 lie_algebra |-> algebra,
                 metric_mat_at_identity |-> metric_mat_at_identity,
                 left_or_right |-> left_or_right,
                 signature |-> Signature(metric_mat_at_identity)])

InvariantMetricInit(cls, group, algebra, metric_mat_arg, left_or_right) ==
    LET metric_mat_at_identity ==
            IF metric_mat_arg = None THEN Eye(group.dim) ELSE metric_mat_arg
    IN  IF left_or_right \notin {"left", "right"} THEN Failure("ValueError")
        ELSE Success([cls |-> cls,
                      dim |-> group.dim,
                      group |-> group,
                      lie_algebra |-> algebra,
                      metric_mat_at_identity |-> metric_mat_at_identity,
                      left_or_right |-> left_or_right,
                      signature |-> Signature(metric_mat_at_identity)])

\* A variant of BiInvariantMetricInit that rejects a group as soon as one of
\* the three names is missing from its string.
BiInvariantMetricInit_AnyMissing(group) ==
    LET super == InvariantMetricInit("BiInvariantMetric", group, None,
                                     Eye(group.dim), "left")
        cond == \/ ~Contains(GroupStr(group), STR_SpecialOrthogonal)
                \/ ~Contains(GroupStr(group), STR_SO)
                \/ ~Contains(GroupStr(group), STR_SpecialOrthogonal3)
    IN  IF cond THEN Failure("ValueError") ELSE super

BiInvariantMetricInit(group) ==
    LET super == InvariantMetricInit("BiInvariantMetric", group, None,
                                     Eye(group.dim), "left")
        cond == /\ ~Contains(GroupStr(group), STR_SpecialOrthogonal)
                /\ ~Contains(GroupStr(group), STR_SO)
                /\ ~Contains(GroupStr(group), STR_SpecialOrthogonal3)
    IN  IF cond THEN Failure("ValueError") ELSE super

(***************************************************************************)
(* Inner products                                                          *)
(***************************************************************************)
\* check_parameter_accepted_values(default_point_type, ['vector', 'matrix'])
\* A variant of InnerProductAtIdentityRaises that accepts every point type.
InnerProductAtIdentityRaises_Never(m) == FALSE

InnerProductAtIdentityRaises(m) ==
    m.group.default_point_type \notin {"vector", "matrix"}

inner_product_at_identity(m, tangent_vec_a, tangent_vec_b) ==
    IF m.group.default_point_type = "vector"
    THEN Dot(VecMat(tangent_vec_a, m.metric_mat_at_identity), tangent_vec_b)
    ELSE Only({
             IF IsDiagonal(metric_mat) /\ m.lie_algebra # None
             THEN Only({MSumAll(weighted)
                        : weighted \in {MHad(aux_prod, ReshapeMetricMatrix(metric_mat))}})
             ELSE MSumAll(aux_prod)
             : aux_prod \in {MHad(tangent_vec_a, tangent_vec_b)},
               metric_mat \in {m.metric_mat_at_identity}})

\* A variant of MetricMatrixRaises that lets every point type through.
MetricMatrixRaises_Never(m) == FALSE

MetricMatrixRaises(m) == m.group.default_point_type = "matrix"

\* A variant of metric_matrix that forgets to transpose the left factor.
metric_matrix_NoTranspose(m, base_point_arg) ==
    LET base_point == IF base_point_arg = None THEN GroupIdentity(m.group)
                      ELSE GroupRegularize(m.group, base_point_arg)
        jacobian == GroupJacobianTranslation(m.group, base_point, m.left_or_right)
        inv_jacobian == MatInverse(jacobian)
    IN  MatMul(MatMul(inv_jacobian, m.metric_mat_at_identity), inv_jacobian)

\* A variant of metric_matrix built from the Jacobian itself, not from its
\* inverse.
metric_matrix_ForwardJacobian(m, base_point_arg) ==
    LET base_point == IF base_point_arg = None THEN GroupIdentity(m.group)
                      ELSE GroupRegularize(m.group, base_point_arg)
        jacobian == GroupJacobianTranslation(m.group, base_point, m.left_or_right)
    IN  MatMul(MatMul(Transpose(jacobian), m.metric_mat_at_identity), jacobian)

metric_matrix(m, base_point_arg) ==
    LET base_point == IF base_point_arg = None THEN GroupIdentity(m.group)
                      ELSE GroupRegularize(m.group, base_point_arg)
        jacobian == GroupJacobianTranslation(m.group, base_point, m.left_or_right)
        inv_jacobian == MatInverse(jacobian)
        inv_jacobian_transposed == Transpose(inv_jacobian)
    IN  MatMul(MatMul(inv_jacobian_transposed, m.metric_mat_at_identity),
               inv_jacobian)

\* RiemannianMetric.inner_product: the bilinear form of metric_matrix
RiemannianMetricInnerProduct(m, tangent_vec_a, tangent_vec_b, base_point) ==
    Dot(VecMat(tangent_vec_a, metric_matrix(m, base_point)), tangent_vec_b)

inner_product(m, tangent_vec_a, tangent_vec_b, base_point) ==
    IF base_point = None
    THEN inner_product_at_identity(m, tangent_vec_a, tangent_vec_b)
    ELSE IF m.group.default_point_type = "vector"
    THEN RiemannianMetricInnerProduct(m, tangent_vec_a, tangent_vec_b, base_point)
    ELSE LET tangent_vec_a_at_id ==
                 GroupTangentTranslation(m.group, base_point, m.left_or_right,
                                         TRUE, tangent_vec_a)
             tangent_vec_b_at_id ==
                 GroupTangentTranslation(m.group, base_point, m.left_or_right,
                                         TRUE, tangent_vec_b)
         IN  inner_product_at_identity(m, tangent_vec_a_at_id, tangent_vec_b_at_id)

\* A variant of InPlaceTarget: the product is accumulated in the first input.
InPlaceTarget_FirstInput == "tangent_vec_a"

\* the array that line 100 multiplies in place
InPlaceTarget == "aux_prod"

\* The arrays inner_product_at_identity holds when it returns.  aux_prod is a
\* new array (line 97), metric_mat is self.metric_mat_at_identity itself
\* (line 98), and the one statement that writes into an array is line 100.
inner_product_at_identity_arrays(m, tangent_vec_a, tangent_vec_b) ==
    IF m.group.default_point_type # "matrix"
    THEN [tangent_vec_a |-> tangent_vec_a, tangent_vec_b |-> tangent_vec_b,
          metric_mat |-> m.metric_mat_at_identity, aux_prod |-> None]
    ELSE Only({
             IF IsDiagonal(before.metric_mat) /\ m.lie_algebra # None
             THEN [before EXCEPT ![InPlaceTarget] =
                      MHad(@, ReshapeMetricMatrix(before.metric_mat))]
             ELSE before
             : before \in {[tangent_vec_a |-> tangent_vec_a,
                            tangent_vec_b |-> tangent_vec_b,
                            metric_mat |-> m.metric_mat_at_identity,
                            aux_prod |-> MHad(tangent_vec_a, tangent_vec_b)]}})

\* The caller's two arrays and the instance's matrix when inner_product
\* returns: at a base point of a matrix group inner_product_at_identity works
\* on the translated copies.
inner_product_arrays(m, tangent_vec_a, tangent_vec_b, base_point) ==
    IF base_point = None
    THEN inner_product_at_identity_arrays(m, tangent_vec_a, tangent_vec_b)
    ELSE IF m.group.default_point_type # "matrix"
    THEN [tangent_vec_a |-> tangent_vec_a, tangent_vec_b |-> tangent_vec_b,
          metric_mat |-> m.metric_mat_at_identity, aux_prod |-> None]
    ELSE [inner_product_at_identity_arrays(
              m,
              GroupTangentTranslation(m.group, base_point, m.left_or_right,
                                      TRUE, tangent_vec_a),
              GroupTangentTranslation(m.group, base_point, m.left_or_right,
                                      TRUE, tangent_vec_b))
          EXCEPT !.tangent_vec_a = tangent_vec_a, !.tangent_vec_b = tangent_vec_b]

\* RiemannianMetric.squared_norm
squared_norm(m, vector) == inner_product(m, vector, vector, None)

(***************************************************************************)
(* The closed-form exponential and logarithm                               *)
(***************************************************************************)
\* A variant of MethodOwner for an instance whose class overrides nothing.
MethodOwner_NoOverride(m, method) == "InvariantMetric"

\* The class whose definition of method an instance runs: BiInvariantMetric
\* overrides exp_from_identity and log_from_identity (lines 845-877), every
\* other method is inherited from InvariantMetric.
MethodOwner(m, method) ==
    IF m.cls = "BiInvariantMetric"
       /\ method \in {"exp_from_identity", "log_from_identity"}
    THEN "BiInvariantMetric"
    ELSE "InvariantMetric"

left_exp_from_identity(m, tangent_vec_arg) ==
    LET tangent_vec == GroupRegularizeTangentVecAtIdentity(m.group, tangent_vec_arg)
        sqrt_inner_product_mat == Sqrtm(m.metric_mat_at_identity)
        mat == Transpose(sqrt_inner_product_mat)
        exp == VecMat(tangent_vec, mat)
    IN  GroupRegularize(m.group, exp)

\* A variant of InvariantMetric_exp_from_identity whose right-invariant
\* branch inverts the exponential of tangent_vec instead of -tangent_vec.
InvariantMetric_exp_from_identity_NoOpposite(m, tangent_vec) ==
    LET exp == IF m.left_or_right = "left"
               THEN left_exp_from_identity(m, tangent_vec)
               ELSE LET opp_left_exp == left_exp_from_identity(m, tangent_vec)
                    IN  GroupInverse(m.group, opp_left_exp)
    IN  GroupRegularize(m.group, exp)

InvariantMetric_exp_from_identity(m, tangent_vec) ==
    LET exp == IF m.left_or_right = "left"
               THEN left_exp_from_identity(m, tangent_vec)
               ELSE LET opp_left_exp == left_exp_from_identity(m, VNeg(tangent_vec))
                    IN  GroupInverse(m.group, opp_left_exp)
    IN  GroupRegularize(m.group, exp)

BiInvariantMetric_exp_from_identity(m, tangent_vec) == GroupExp(m.group, tangent_vec)

\* self.exp_from_identity: the method of the instance's class
exp_from_identity(m, tangent_vec) ==
    IF MethodOwner(m, "exp_from_identity") = "BiInvariantMetric"
    THEN BiInvariantMetric_exp_from_identity(m, tangent_vec)
    ELSE InvariantMetric_exp_from_identity(m, tangent_vec)

\* A variant of exp that composes with the base point on the side of the
\* other orientation.
exp_ComposeOtherSide(m, tangent_vec, base_point_arg) ==
    LET identity == GroupIdentity(m.group)
        base_point == GroupRegularize(m.group,
                          IF base_point_arg = None THEN identity ELSE base_point_arg)
    IN  IF AllClose(m.group, base_point, identity)
        THEN exp_from_identity(m, tangent_vec)
        ELSE LET tangent_vec_at_id ==
                     GroupTangentTranslation(m.group, base_point, m.left_or_right,
                                             TRUE, tangent_vec)
                 exp_from_id == exp_from_identity(m, tangent_vec_at_id)
             IN  GroupRegularize(m.group,
                     IF m.left_or_right = "left"
                     THEN GroupCompose(m.group, exp_from_id, base_point)
                     ELSE GroupCompose(m.group, base_point, exp_from_id))

exp(m, tangent_vec, base_point_arg) ==
    LET identity == GroupIdentity(m.group)
        base_point == GroupRegularize(m.group,
                          IF base_point_arg = None THEN identity ELSE base_point_arg)
    IN  IF AllClose(m.group, base_point, identity)
        THEN exp_from_identity(m, tangent_vec)
        ELSE LET tangent_vec_at_id ==
                     GroupTangentTranslation(m.group, base_point, m.left_or_right,
                                             TRUE, tangent_vec)
                 exp_from_id == exp_from_identity(m, tangent_vec_at_id)
             IN  GroupRegularize(m.group,
                     IF m.left_or_right = "left"
                     THEN GroupCompose(m.group, base_point, exp_from_id)
                     ELSE GroupCompose(m.group, exp_from_id, base_point))

\* A variant of left_log_from_identity that takes the square root of the
\* metric matrix itself, not of its inverse.
left_log_from_identity_NoInverse(m, point_arg) ==
    LET point == GroupRegularize(m.group, point_arg)
        inner_prod_mat == m.metric_mat_at_identity
        sqrt_inner_prod_mat == Sqrtm(inner_prod_mat)
        log == VecMat(point, sqrt_inner_prod_mat)
    IN  GroupRegularizeTangentVecAtIdentity(m.group, log)

left_log_from_identity(m, point_arg) ==
    LET point == GroupRegularize(m.group, point_arg)
        inner_prod_mat == m.metric_mat_at_identity
        inv_inner_prod_mat == MatInverse(inner_prod_mat)
        sqrt_inv_inner_prod_mat == Sqrtm(inv_inner_prod_mat)
        log == VecMat(point, sqrt_inv_inner_prod_mat)
    IN  GroupRegularizeTangentVecAtIdentity(m.group, log)

InvariantMetric_log_from_identity(m, point_arg) ==
    LET point == GroupRegularize(m.group, point_arg)
    IN  IF m.left_or_right = "left"
        THEN left_log_from_identity(m, point)
        ELSE LET inv_point == GroupInverse(m.group, point)
                 left_log == left_log_from_identity(m, inv_point)
             IN  VNeg(left_log)

BiInvariantMetric_log_from_identity(m, point) == GroupLog(m.group, point)

\* self.log_from_identity: the method of the instance's class
log_from_identity(m, point) ==
    IF MethodOwner(m, "log_from_identity") = "BiInvariantMetric"
    THEN BiInvariantMetric_log_from_identity(m, point)
    ELSE InvariantMetric_log_from_identity(m, point)

log(m, point_arg, base_point_arg) ==
    LET identity == GroupIdentity(m.group)
        base_point == IF base_point_arg = None THEN identity
                      ELSE GroupRegularize(m.group, base_point_arg)
    IN  IF AllClose(m.group, base_point, identity)
        THEN log_from_identity(m, point_arg)
        ELSE LET point == GroupRegularize(m.group, point_arg)
                 point_near_id ==
                     IF m.left_or_right = "left"
                     THEN GroupCompose(m.group, GroupInverse(m.group, base_point), point)
                     ELSE GroupCompose(m.group, point, GroupInverse(m.group, base_point))
                 log_from_id == log_from_identity(m, point_near_id)
             IN  GroupTangentTranslation(m.group, base_point, m.left_or_right,
                                         FALSE, log_from_id)

\* The closed form contracts a tangent vector with the dim x dim matrix
\* square root: it needs vector points, and a square root to exist.
\* The logarithm also inverts the metric matrix.
ClosedFormExpRaises(m) ==
    /\ MethodOwner(m, "exp_from_identity") = "InvariantMetric"
    /\ m.group.default_point_type = "matrix"
ClosedFormLogRaises(m) ==
    IF MethodOwner(m, "log_from_identity") # "InvariantMetric" THEN FALSE
    ELSE IF m.group.default_point_type = "matrix" THEN TRUE
    ELSE IsSingular(m.metric_mat_at_identity)
\* metrics whose square roots are rational, on a group whose point type the
\* closed form knows, so that the model can follow them
ExpModelled(m) ==
    IF m.group.default_point_type \notin {"vector", "matrix"} THEN FALSE
    ELSE IF MethodOwner(m, "exp_from_identity") = "BiInvariantMetric" THEN TRUE
    ELSE HasSqrtm(m.metric_mat_at_identity)
LogModelled(m) ==
    IF m.group.default_point_type \notin {"vector", "matrix"} THEN FALSE
    ELSE IF MethodOwner(m, "log_from_identity") = "BiInvariantMetric" THEN TRUE
    ELSE IF IsSingular(m.metric_mat_at_identity) THEN TRUE
    ELSE HasSqrtm(MatInverse(m.metric_mat_at_identity))

(***************************************************************************)
(* Connection and curvature at the identity                                *)
(***************************************************************************)
EPSILON == <<1, 1000000>>

structure_constant(m, tangent_vec_a, tangent_vec_b, tangent_vec_c) ==
    Only({inner_product_at_identity(m, bracket, tangent_vec_c)
          : bracket \in {Bracket(tangent_vec_a, tangent_vec_b)}})

\* sum over i of coefficients[i] * basis[i]: einsum('i...,ijk->...jk')
BasisCombination(coefficients, basis) ==
    Only({T([j \in 1..Len(y[1]) |->
               T([k \in 1..Len(y[1][j]) |->
                   RSum(T([i \in 1..Len(x) |-> RMul(x[i], y[i][j][k])]))])])
          : x \in {coefficients}, y \in {basis}})

dual_adjoint(m, tangent_vec_a, tangent_vec_b) ==
    Only({
        Only({MNeg(BasisCombination(coefficients, basis))
              : coefficients \in {T([i \in 1..Len(basis) |->
                    structure_constant(m, basis[i], tangent_vec_a, tangent_vec_b)])}})
        : basis \in {OrthonormalBasis(m.metric_mat_at_identity)}})

connection_at_identity(m, tangent_vec_a, tangent_vec_b) ==
    Only({
        Only({MScale(Half, MSub(MSub(bracket, dual_ab), dual_ba))
              : bracket \in {Bracket(a, b)},
                dual_ab \in {dual_adjoint(m, a, b)},
                dual_ba \in {dual_adjoint(m, b, a)}})
        : a \in {tangent_vec_a}, b \in {tangent_vec_b}})

\* A variant of curvature_at_identity that subtracts its last term.
curvature_at_identity_MinusRight(m, tangent_vec_a, tangent_vec_b, tangent_vec_c) ==
    Only({
        Only({MSub(MSub(bracket_term, left_term), right_term)
              : bracket_term \in {connection_at_identity(m, bracket, tangent_vec_c)},
                left_term \in {connection_at_identity(m, tangent_vec_a, nabla_bc)},
                right_term \in {connection_at_identity(m, tangent_vec_b, nabla_ac)}})
        : bracket \in {Bracket(tangent_vec_a, tangent_vec_b)},
          nabla_bc \in {connection_at_identity(m, tangent_vec_b, tangent_vec_c)},
          nabla_ac \in {connection_at_identity(m, tangent_vec_a, tangent_vec_c)}})

curvature_at_identity(m, tangent_vec_a, tangent_vec_b, tangent_vec_c) ==
    Only({
        Only({MAdd(MSub(bracket_term, left_term), right_term)
              : bracket_term \in {connection_at_identity(m, bracket, tangent_vec_c)},
                left_term \in {connection_at_identity(m, tangent_vec_a, nabla_bc)},
                right_term \in {connection_at_identity(m, tangent_vec_b, nabla_ac)}})
        : bracket \in {Bracket(tangent_vec_a, tangent_vec_b)},
          nabla_bc \in {connection_at_identity(m, tangent_vec_b, tangent_vec_c)},
          nabla_ac \in {connection_at_identity(m, tangent_vec_a, tangent_vec_c)}})

\* A variant of sectional_curvature_at_identity whose masked entries take the
\* substituted denominator instead of zero.
sectional_curvature_at_identity_MaskDenom(m, tangent_vec_a, tangent_vec_b) ==
    Only({
        LET condition == IsCloseToZero(denom0)
            denom == IF condition THEN EPSILON ELSE denom0
        IN  IF ~condition THEN RDiv(num, denom) ELSE denom
        : num \in {Only({inner_product(m, tangent_vec_b, curvature, None)
                          : curvature \in {curvature_at_identity(
                                m, tangent_vec_a, tangent_vec_b, tangent_vec_a)}})},
          denom0 \in {Only({RSub(RMul(aa, aa), RMul(ab, ab))
                            : aa \in {squared_norm(m, tangent_vec_a)},
                              ab \in {inner_product(m, tangent_vec_a, tangent_vec_b, None)}})}})

\* the denominator as lines 389-392 compute it
sectional_curvature_denom(m, tangent_vec_a, tangent_vec_b) ==
    Only({RSub(RMul(aa, aa), RMul(ab, ab))
          : aa \in {squared_norm(m, tangent_vec_a)},
            ab \in {inner_product(m, tangent_vec_a, tangent_vec_b, None)}})

sectional_curvature_at_identity(m, tangent_vec_a, tangent_vec_b) ==
    Only({
        LET condition == IsCloseToZero(denom0)
            denom == IF condition THEN EPSILON ELSE denom0
        IN  IF ~condition THEN RDiv(num, denom) ELSE Zero
        : num \in {Only({inner_product(m, tangent_vec_b, curvature, None)
                          : curvature \in {curvature_at_identity(
                                m, tangent_vec_a, tangent_vec_b, tangent_vec_a)}})},
          denom0 \in {sectional_curvature_denom(m, tangent_vec_a, tangent_vec_b)}})

(***************************************************************************)
(* Connection and curvature at a base point                                *)
(***************************************************************************)
connection(m, tangent_vec_a, tangent_vec_b, base_point) ==
    IF base_point = None
    THEN connection_at_identity(m, tangent_vec_a, tangent_vec_b)
    ELSE Only({
             GroupTangentTranslation(m.group, base_point, m.left_or_right, FALSE,
                                     value_at_id)
             : value_at_id \in {connection_at_identity(
                   m,
                   GroupTangentTranslation(m.group, base_point, m.left_or_right,
                                           TRUE, tangent_vec_a),
                   GroupTangentTranslation(m.group, base_point, m.left_or_right,
                                           TRUE, tangent_vec_b))}})

\* A variant of curvature that hands tangent_vec_c to curvature_at_identity
\* as it is, without translating it to the identity.
curvature_ThirdNotTranslated(m, tangent_vec_a, tangent_vec_b, tangent_vec_c, base_point) ==
    IF base_point = None
    THEN curvature_at_identity(m, tangent_vec_a, tangent_vec_b, tangent_vec_c)
    ELSE Only({
             GroupTangentTranslation(m.group, base_point, m.left_or_right, FALSE,
                                     value_at_id)
             : value_at_id \in {curvature_at_identity(
                   m,
                   GroupTangentTranslation(m.group, base_point, m.left_or_right,
                                           TRUE, tangent_vec_a),
                   GroupTangentTranslation(m.group, base_point, m.left_or_right,
                                           TRUE, tangent_vec_b),
                   tangent_vec_c)}})

curvature(m, tangent_vec_a, tangent_vec_b, tangent_vec_c, base_point) ==
    IF base_point = None
    THEN curvature_at_identity(m, tangent_vec_a, tangent_vec_b, tangent_vec_c)
    ELSE Only({
             GroupTangentTranslation(m.group, base_point, m.left_or_right, FALSE,
                                     value_at_id)
             : value_at_id \in {curvature_at_identity(
                   m,
                   GroupTangentTranslation(m.group, base_point, m.left_or_right,
                                           TRUE, tangent_vec_a),
                   GroupTangentTranslation(m.group, base_point, m.left_or_right,
                                           TRUE, tangent_vec_b),
                   GroupTangentTranslation(m.group, base_point, m.left_or_right,
                                           TRUE, tangent_vec_c))}})

\* lines 428-472: the four terms are built with self.connection and
\* self.curvature called without a base point, which return the value of
\* connection_at_identity and of curvature_at_identity (lines 274-275 and
\* 353-355)
curvature_derivative_at_identity(m, tangent_vec_a, tangent_vec_b, tangent_vec_c, tangent_vec_d) ==
    Only({
        Only({MSub(MSub(MSub(first_term, second_term), third_term), fourth_term)
              : first_term \in {connection_at_identity(m, tangent_vec_a, r_bcd)},
                second_term \in {curvature_at_identity(m, nabla_ab, tangent_vec_c,
                                                       tangent_vec_d)},
                third_term \in {curvature_at_identity(m, tangent_vec_b, nabla_ac,
                                                      tangent_vec_d)},
                fourth_term \in {curvature_at_identity(m, tangent_vec_b, tangent_vec_c,
                                                       nabla_ad)}})
        : r_bcd \in {curvature_at_identity(m, tangent_vec_b, tangent_vec_c,
                                           tangent_vec_d)},
          nabla_ab \in {connection_at_identity(m, tangent_vec_a, tangent_vec_b)},
          nabla_ac \in {connection_at_identity(m, tangent_vec_a, tangent_vec_c)},
          nabla_ad \in {connection_at_identity(m, tangent_vec_a, tangent_vec_d)}})

\* lines 501-516; the two returns are written as one call at the identity, on
\* the inputs as they are when base_point is None and translated otherwise
curvature_derivative(m, tangent_vec_a, tangent_vec_b, tangent_vec_c, tangent_vec_d, base_point) ==
    Only({
        IF base_point = None THEN value_at_id
        ELSE GroupTangentTranslation(m.group, base_point, m.left_or_right, FALSE,
                                     value_at_id)
        : value_at_id \in {Only({
              curvature_derivative_at_identity(m, at_id[1], at_id[2], at_id[3], at_id[4])
              : at_id \in {IF base_point = None
                           THEN <<tangent_vec_a, tangent_vec_b, tangent_vec_c,
                                  tangent_vec_d>>
                           ELSE <<GroupTangentTranslation(
                                      m.group, base_point, m.left_or_right, TRUE,
                                      tangent_vec_a),
                                  GroupTangentTranslation(
                                      m.group, base_point, m.left_or_right, TRUE,
                                      tangent_vec_b),
                                  GroupTangentTranslation(
                                      m.group, base_point, m.left_or_right, TRUE,
                                      tangent_vec_c),
                                  GroupTangentTranslation(
                                      m.group, base_point, m.left_or_right, TRUE,
                                      tangent_vec_d)>>}})}})

\* dual_adjoint reads self.lie_algebra.orthonormal_basis: without an algebra
\* the call fails (None has no such attribute)
CurvatureRaises(m) == m.lie_algebra = None

(***************************************************************************)
(* The Euler-Poincare geodesic                                             *)
(***************************************************************************)
\* lie_acceleration of lines 743-747
lie_acceleration(m, vector) ==
    Only({
        Only({BasisCombination(coefficients, basis)
              : coefficients \in {T([i \in 1..Len(basis) |->
                    structure_constant(m, vector, basis[i], vector)])}})
        : basis \in {OrthonormalBasis(m.metric_mat_at_identity)}})

\* A variant of geodesic_initial_state that starts the flow at the identity.
geodesic_initial_state_AtIdentity(m, tangent_vec, base_point) ==
    LET left_angular_vel ==
            GroupCompose(m.group, GroupInverse(m.group, base_point), tangent_vec)
    IN  <<GroupIdentity(m.group), GroupRegularize(m.group, left_angular_vel)>>

\* the initial state handed to integrate (lines 749-751)
geodesic_initial_state(m, tangent_vec, base_point) ==
    LET left_angular_vel ==
            GroupCompose(m.group, GroupInverse(m.group, base_point), tangent_vec)
    IN  <<base_point, GroupRegularize(m.group, left_angular_vel)>>

\* The integrator (geomstats.integrator): one fixed step of size dt of the
\* state (point, vector); the point moves by the group's transport law
\* (the left translation of the velocity), the vector by the acceleration.
Transport(m, point, vector) ==
    GroupTangentTranslation(m.group, point, "left", FALSE, vector)

\* the increment of the state over dt, with the slope taken at state
Increment(m, state, dt) ==
    Only({<<MScale(dt, Transport(m, x[1], x[2])), MScale(dt, lie_acceleration(m, x[2]))>>
          : x \in {state}})

\* state + c * k
Shifted(state, c, k) ==
    Only({<<MAdd(x[1], MScale(c, y[1])), MAdd(x[2], MScale(c, y[2]))>>
          : x \in {state}, y \in {k}})

euler_step(m, state, dt) == Shifted(state, One, Increment(m, state, dt))

group_rk2_step(m, state, dt) ==
    Only({Shifted(state, One, Increment(m, Shifted(state, Half, k1), dt))
          : k1 \in {Increment(m, state, dt)}})

group_rk4_step(m, state, dt) ==
    Only({Only({Only({Only({
        Shifted(state, <<1, 6>>,
                Shifted(Shifted(k1, R(2), k2), One, Shifted(k4, R(2), k3)))
        : k4 \in {Increment(m, Shifted(state, One, k3), dt)}})
        : k3 \in {Increment(m, Shifted(state, Half, k2), dt)}})
        : k2 \in {Increment(m, Shifted(state, Half, k1), dt)}})
        : k1 \in {Increment(m, state, dt)}})

StepNames == {"euler", "group_rk2", "group_rk4"}

integrator_step(m, step, state, dt) ==
    CASE step = "euler" -> euler_step(m, state, dt)
      [] step = "group_rk2" -> group_rk2_step(m, state, dt)
      [] step = "group_rk4" -> group_rk4_step(m, state, dt)

\* line 741 reads self.lie_algebra.orthonormal_basis
GeodesicRaises(m) == m.lie_algebra = None

(***************************************************************************)
(* The Euler-Poincare logarithm                                            *)
(***************************************************************************)
\* gs.flatten of a matrix, and gs.reshape of a flat array to n rows
Flatten(x) == x[1] \o x[2]
Reshape(flat, n) ==
    T([i \in 1..n |-> T([j \in 1..(Len(flat) \div n) |->
                            flat[(i - 1) * (Len(flat) \div n) + j]])])

\* A variant of EulerPoincarreLogRaises that turns the optimizer's report of
\* a failure into an exception.
EulerPoincarreLogRaises_OnFailure(m, res) ==
    IF GeodesicRaises(m) THEN TRUE ELSE ~res.success

\* The objective runs euler_poincarre_geodesic, which needs the Lie algebra;
\* res.success is not read.
EulerPoincarreLogRaises(m, res) == GeodesicRaises(m)

\* lines 811-815: what is returned from the optimizer's report res
euler_poincarre_log(m, point, base_point, res) ==
    GroupToTangent(m.group, Reshape(res.x, Len(base_point)), base_point)

(***************************************************************************)
(* Calls made on the group and on the closed form's linear algebra, in     *)
(* order, by the exponential and the logarithm.                            *)
(***************************************************************************)
left_exp_from_identity_calls ==
    <<"group.regularize_tangent_vec_at_identity", "gs.linalg.sqrtm", "group.regularize">>

exp_from_identity_calls(m) ==
    IF MethodOwner(m, "exp_from_identity") = "BiInvariantMetric" THEN <<"group.exp">>
    ELSE (IF m.left_or_right = "left" THEN left_exp_from_identity_calls
          ELSE left_exp_from_identity_calls \o <<"group.inverse">>)
         \o <<"group.regularize">>

exp_calls(m, base_point_arg) ==
    LET identity == GroupIdentity(m.group)
        base_point == GroupRegularize(m.group,
                          IF base_point_arg = None THEN identity ELSE base_point_arg)
    IN  <<"group.regularize">>
        \o (IF AllClose(m.group, base_point, identity)
            THEN exp_from_identity_calls(m)
            ELSE <<"group.tangent_translation_map">>
                 \o exp_from_identity_calls(m)
                 \o <<"group.compose", "group.regularize">>)

left_log_from_identity_calls ==
    <<"group.regularize", "GeneralLinear.inverse", "gs.linalg.sqrtm",
      "group.regularize_tangent_vec_at_identity">>

log_from_identity_calls(m) ==
    IF MethodOwner(m, "log_from_identity") = "BiInvariantMetric" THEN <<"group.log">>
    ELSE <<"group.regularize">>
         \o (IF m.left_or_right = "left" THEN left_log_from_identity_calls
             ELSE <<"group.inverse">> \o left_log_from_identity_calls)

log_calls(m, base_point_arg) ==
    LET identity == GroupIdentity(m.group)
        base_point == IF base_point_arg = None THEN identity
                      ELSE GroupRegularize(m.group, base_point_arg)
    IN  (IF base_point_arg = None THEN <<>> ELSE <<"group.regularize">>)
        \o (IF AllClose(m.group, base_point, identity)
            THEN log_from_identity_calls(m)
            ELSE <<"group.regularize", "group.inverse", "group.compose">>
                 \o log_from_identity_calls(m)
                 \o <<"group.tangent_translation_map">>)

\* The calls of connection, curvature and curvature_derivative: the inverse
\* map is asked of the group and applied to each of the n inputs; connection
\* and curvature ask for the forward map before they compute at the identity,
\* curvature_derivative after; the forward map is applied last.  Without a
\* Lie algebra the computation at the identity raises.
MapInverse == "group.tangent_translation_map(inverse=True)"
MapForward == "group.tangent_translation_map(inverse=False)"
ApplyInverse == "translation_map(inverse=True)(tangent_vec)"
ApplyForward == "translation_map(inverse=False)(value_at_id)"

lifted_calls(m, at_identity, n, base_point) ==
    IF base_point = None THEN <<at_identity>>
    ELSE <<MapInverse>> \o T([i \in 1..n |-> ApplyInverse])
         \o (IF at_identity = "curvature_derivative_at_identity"
             THEN <<at_identity>>
                  \o (IF CurvatureRaises(m) THEN <<>> ELSE <<MapForward>>)
             ELSE <<MapForward, at_identity>>)
         \o (IF CurvatureRaises(m) THEN <<>> ELSE <<ApplyForward>>)

metric_matrix_calls(m, base_point) ==
    (IF base_point = None THEN <<>> ELSE <<"group.regularize">>)
    \o <<"group.jacobian_translation", "GeneralLinear.inverse">>

inner_product_calls(m, base_point) ==
    IF base_point = None THEN <<>>
    ELSE IF m.group.default_point_type = "vector"
    THEN <<"group.regularize", "group.jacobian_translation">>
    ELSE <<"group.tangent_translation_map">>

(***************************************************************************)
(* Inputs                                                                  *)
(***************************************************************************)
NVec == 5
NMat == 4
NLift == 2
NPoint == 4
MaxSteps == 2

\* a number that is not zero and that gs.isclose and gs.allclose take for zero
Tiny == <<1, 100000000>>

FirstN(list, n) == {list[i] : i \in 1..(IF n < Len(list) THEN n ELSE Len(list))}

VecList1 == <<IV(<<0>>), IV(<<1>>), IV(<<3>>), <<<<-5, 2>>>>, IV(<<-1>>), IV(<<2>>), IV(<<-6>>)>>
VecList2 == <<IV(<<0, 0>>), IV(<<1, 0>>), IV(<<2, 4>>), IV(<<-1, 2>>), <<<<1, 2>>, <<-3, 1>>>>,
              IV(<<0, 1>>), IV(<<3, -2>>)>>
VecList3 == <<IV(<<0, 0, 0>>), IV(<<1, 0, 0>>), IV(<<1, 2, -1>>), IV(<<-1, 1, 2>>),
              IV(<<0, 1, 0>>), IV(<<2, -3, 1>>), IV(<<0, 0, 1>>)>>
\* tangent matrices of gl(2): zero, two pairs of proportional ones, others
MatList == <<MZero(2), E(1, 2), E(2, 1), MScale(R(2), E(1, 2)),
             IM(<<<<0, 1>>, <<-1, 0>>>>), IM(<<<<1, 2>>, <<0, -1>>>>),
             IM(<<<<-2, -4>>, <<0, 2>>>>)>>
\* invertible 2x2 matrices
GLPointList == <<IM(<<<<1, 1>>, <<0, 1>>>>), IM(<<<<0, -1>>, <<1, 0>>>>),
                 IM(<<<<2, 0>>, <<0, 1>>>>), Eye(2), IM(<<<<1, 2>>, <<1, 3>>>>),
                 IM(<<<<1, 0>>, <<-1, 1>>>>)>>

\* tangent matrices for the operations lifted to a base point; the first
\* two do not commute
LiftList == <<E(1, 2), E(2, 1), IM(<<<<1, 2>>, <<0, -1>>>>)>>
LiftVecs == FirstN(LiftList, NLift)

TangentVecs(g) ==
    CASE g.kind = "euclid" -> FirstN(VecList2, NVec)
      [] g.kind = "so2" -> FirstN(VecList1, NVec)
      [] g.kind = "heis" -> FirstN(VecList3, NVec)
      [] g.kind = "gl" -> FirstN(MatList, NMat)

Points(g) ==
    CASE g.kind = "euclid" -> FirstN(VecList2, NPoint)
      [] g.kind = "so2" -> FirstN(VecList1, NPoint)
      [] g.kind = "heis" -> FirstN(VecList3, NPoint)
      [] g.kind = "gl" -> FirstN(GLPointList, NPoint)

BasePoints(g) == Points(g) \cup {None}

\* the base points handed to connection and curvature
LiftBasePoints == {None} \cup FirstN(GLPointList, NLift)

\* a point of the plane that is not the identity and that gs.allclose takes
\* for it
NearIdentity == <<Tiny, Zero>>

\* the base points handed to exp
ExpBasePoints(g) ==
    BasePoints(g) \cup (IF g.kind = "euclid" THEN {NearIdentity} ELSE {})

\* the metric matrices handed to the constructor
MetricMats(g) ==
    CASE g.kind = "euclid" ->
            {None, Diag(IV(<<1, 4>>)), IM(<<<<5, 4>>, <<4, 5>>>>),
             IM(<<<<1, 2>>, <<0, 1>>>>), Diag(IV(<<1, 0>>)), Diag(IV(<<1, -1>>)),
             Diag(<<One, Tiny>>)}
      [] g.kind = "so2" -> {None, IM(<<<<4>>>>), <<<<<<1, 4>>>>>>}
      [] g.kind = "heis" -> {None, Diag(IV(<<1, 4, 1>>)), Diag(IV(<<4, 1, 9>>))}
      [] g.kind = "gl" -> {None, Diag(IV(<<1, 4, 4, 1>>)), Diag(IV(<<4, 1, 1, 9>>))}

Algebras(g) == IF g = G_GL THEN {None, GL2Algebra} ELSE {None}

\* groups an InvariantMetric is built on; a BiInvariantMetric is tried on all
MetricGroups == {G_Euclid, G_SO2Vec, G_Heis, G_GL, G_Tensor}

(***************************************************************************)
(* The state machine                                                       *)
(***************************************************************************)
VARIABLES
    metric,     \* the metric instance, None before a construction succeeds
    op,         \* the operation in progress or just finished, "idle" between
    args,       \* the arguments of that operation
    result,     \* Success(value) or Failure(error); None while in progress
    inputs,     \* the caller's argument arrays as the operation left them
    calls,      \* the calls the operation made on the group
    integ       \* the integrator's state [position, velocity, k] in a geodesic

vars == <<metric, op, args, inputs, result, calls, integ>>

Init ==
    /\ metric = None
    /\ op = "idle"
    /\ args = None
    /\ inputs = None
    /\ result = None
    /\ calls = <<>>
    /\ integ = None

Idle == op = "idle"
Ready == op = "idle" /\ metric # None

\* the end of a call that writes into none of its arguments
Finish(name, a, r, c) ==
    /\ op' = name
    /\ args' = a
    /\ inputs' = a
    /\ result' = r
    /\ calls' = c
    /\ integ' = None

ConstructInvariantMetric ==
    /\ Idle /\ metric = None
    /\ \E g \in MetricGroups, alg \in {None, GL2Algebra},
          lr \in {"left", "right", "both"} :
        /\ alg \in Algebras(g)
        /\ \E mat \in MetricMats(g) :
            LET r == InvariantMetricInit("InvariantMetric", g, alg, mat, lr)
            IN  /\ metric' = IF r.ok THEN r.value ELSE None
                /\ Finish("InvariantMetric",
                          [group |-> g, algebra |-> alg,
                           metric_mat_at_identity |-> mat, left_or_right |-> lr],
                          r, <<>>)

ConstructBiInvariantMetric ==
    /\ Idle /\ metric = None
    /\ \E g \in Groups :
        LET r == BiInvariantMetricInit(g)
        IN  /\ metric' = IF r.ok THEN r.value ELSE None
            /\ Finish("BiInvariantMetric", [group |-> g], r, <<>>)

CallInnerProduct ==
    /\ Ready
    /\ \E a \in TangentVecs(metric.group), b \in TangentVecs(metric.group),
          p \in BasePoints(metric.group) :
        IF InnerProductAtIdentityRaises(metric)
        THEN /\ Finish("inner_product",
                       [tangent_vec_a |-> a, tangent_vec_b |-> b, base_point |-> p],
                       Failure("ValueError"), inner_product_calls(metric, p))
             /\ UNCHANGED metric
        ELSE LET arrays == inner_product_arrays(metric, a, b, p)
             IN  /\ op' = "inner_product"
                 /\ args' = [tangent_vec_a |-> a, tangent_vec_b |-> b,
                             base_point |-> p]
                 /\ inputs' = [tangent_vec_a |-> arrays.tangent_vec_a,
                               tangent_vec_b |-> arrays.tangent_vec_b,
                               base_point |-> p]
                 /\ metric' = [metric EXCEPT
                                  !.metric_mat_at_identity = arrays.metric_mat]
                 /\ result' = Success(inner_product(metric, a, b, p))
                 /\ calls' = inner_product_calls(metric, p)
                 /\ integ' = None

\* metric_matrix, on the groups whose point type the metric knows
CallMetricMatrix ==
    /\ Ready /\ ~InnerProductAtIdentityRaises(metric)
    /\ \E p \in BasePoints(metric.group) :
        Finish("metric_matrix", [base_point |-> p],
               IF MetricMatrixRaises(metric) THEN Failure("NotImplementedError")
               ELSE Success(metric_matrix(metric, p)),
               IF MetricMatrixRaises(metric) THEN <<>>
               ELSE metric_matrix_calls(metric, p))
    /\ UNCHANGED metric

CallExpFromIdentity ==
    /\ Ready /\ ExpModelled(metric)
    /\ \E v \in TangentVecs(metric.group) :
        Finish("exp_from_identity", [tangent_vec |-> v],
               IF ClosedFormExpRaises(metric) THEN Failure("ValueError")
               ELSE Success(exp_from_identity(metric, v)),
               IF ClosedFormExpRaises(metric) THEN <<>>
               ELSE exp_from_identity_calls(metric))
    /\ UNCHANGED metric

CallExp ==
    /\ Ready /\ ExpModelled(metric)
    /\ \E v \in TangentVecs(metric.group), p \in ExpBasePoints(metric.group) :
        Finish("exp", [tangent_vec |-> v, base_point |-> p],
               IF ClosedFormExpRaises(metric) THEN Failure("ValueError")
               ELSE Success(exp(metric, v, p)),
               IF ClosedFormExpRaises(metric) THEN <<>> ELSE exp_calls(metric, p))
    /\ UNCHANGED metric

CallLogFromIdentity ==
    /\ Ready /\ LogModelled(metric)
    /\ \E q \in Points(metric.group) :
        Finish("log_from_identity", [point |-> q],
               IF ClosedFormLogRaises(metric) THEN Failure("LinAlgError")
               ELSE Success(log_from_identity(metric, q)),
               IF ClosedFormLogRaises(metric) THEN <<>>
               ELSE log_from_identity_calls(metric))
    /\ UNCHANGED metric

CallLog ==
    /\ Ready /\ LogModelled(metric)
    /\ \E q \in Points(metric.group) \cup TangentVecs(metric.group),
          p \in BasePoints(metric.group) :
        Finish("log", [point |-> q, base_point |-> p],
               IF ClosedFormLogRaises(metric) THEN Failure("LinAlgError")
               ELSE Success(log(metric, q, p)),
               IF ClosedFormLogRaises(metric) THEN <<>> ELSE log_calls(metric, p))
    /\ UNCHANGED metric

CallCurvatureAtIdentity ==
    /\ Ready /\ metric.group.default_point_type = "matrix"
    /\ \E a \in TangentVecs(metric.group), b \in TangentVecs(metric.group),
          c \in TangentVecs(metric.group) :
        Finish("curvature_at_identity",
               [tangent_vec_a |-> a, tangent_vec_b |-> b, tangent_vec_c |-> c],
               IF CurvatureRaises(metric) THEN Failure("AttributeError")
               ELSE Success(curvature_at_identity(metric, a, b, c)),
               <<>>)
    /\ UNCHANGED metric

CallConnection ==
    /\ Ready /\ metric.group.default_point_type = "matrix"
    /\ \E a \in LiftVecs, b \in LiftVecs, p \in LiftBasePoints :
        Finish("connection",
               [tangent_vec_a |-> a, tangent_vec_b |-> b, base_point |-> p],
               IF CurvatureRaises(metric) THEN Failure("AttributeError")
               ELSE Success(connection(metric, a, b, p)),
               lifted_calls(metric, "connection_at_identity", 2, p))
    /\ UNCHANGED metric

CallCurvature ==
    /\ Ready /\ metric.group.default_point_type = "matrix"
    /\ \E a \in LiftVecs, b \in LiftVecs, p \in LiftBasePoints :
        Finish("curvature",
               [tangent_vec_a |-> a, tangent_vec_b |-> b, tangent_vec_c |-> a,
                base_point |-> p],
               IF CurvatureRaises(metric) THEN Failure("AttributeError")
               ELSE Success(curvature(metric, a, b, a, p)),
               lifted_calls(metric, "curvature_at_identity", 3, p))
    /\ UNCHANGED metric

CallCurvatureDerivative ==
    /\ Ready /\ metric.group.default_point_type = "matrix"
    /\ \E a \in LiftVecs, b \in {LiftList[2]}, c \in {LiftList[1]},
          d \in {LiftList[2]}, p \in {None, GLPointList[1]} :
        Finish("curvature_derivative",
               [tangent_vec_a |-> a, tangent_vec_b |-> b, tangent_vec_c |-> c,
                tangent_vec_d |-> d, base_point |-> p],
               IF CurvatureRaises(metric) THEN Failure("AttributeError")
               ELSE Success(curvature_derivative(metric, a, b, c, d, p)),
               lifted_calls(metric, "curvature_derivative_at_identity", 4, p))
    /\ UNCHANGED metric

CallSectionalCurvatureAtIdentity ==
    /\ Ready /\ metric.group.default_point_type = "matrix"
    /\ \E a \in TangentVecs(metric.group), b \in TangentVecs(metric.group) :
        Finish("sectional_curvature_at_identity",
               [tangent_vec_a |-> a, tangent_vec_b |-> b],
               IF CurvatureRaises(metric) THEN Failure("AttributeError")
               ELSE Success(sectional_curvature_at_identity(metric, a, b)),
               <<>>)
    /\ UNCHANGED metric

\* euler_poincarre_geodesic up to the call of integrate.  The Runge-Kutta
\* schemes square the velocity at each of their stages, and with a moving
\* start their exact rationals leave TLC's integers within a step: a moving
\* start is followed with the euler scheme, a start at rest with every scheme.
CallEulerPoincarreGeodesic ==
    /\ Ready /\ metric.group.default_point_type = "matrix"
    /\ \E v \in TangentVecs(metric.group), p \in Points(metric.group),
          n \in 0..MaxSteps, step \in StepNames :
        /\ v # MZero(metric.group.n) => step = "euler"
        /\ LET a == [tangent_vec |-> v, base_point |-> p,
                      n_steps |-> n, step |-> step]
           IN  IF GeodesicRaises(metric)
               THEN Finish("euler_poincarre_geodesic", a,
                           Failure("AttributeError"), <<>>)
               ELSE LET s == geodesic_initial_state(metric, v, p)
                    IN  /\ op' = "euler_poincarre_geodesic"
                        /\ args' = a
                        /\ inputs' = a
                        /\ result' = None
                        /\ calls' = <<"group.inverse", "group.compose",
                                      "group.regularize">>
                        /\ integ' = [position |-> s[1], velocity |-> s[2], k |-> 0]
    /\ UNCHANGED metric

\* euler_poincarre_log: the optimizer is free to report any solution x, with
\* or without success
CallEulerPoincarreLog ==
    /\ Ready /\ metric.group.default_point_type = "matrix"
    /\ \E q \in Points(metric.group), p \in Points(metric.group),
          x \in TangentVecs(metric.group), success \in BOOLEAN :
        LET res == [x |-> Flatten(x), success |-> success]
        IN  Finish("euler_poincarre_log",
                   [point |-> q, base_point |-> p, res |-> res],
                   IF EulerPoincarreLogRaises(metric, res)
                   THEN Failure("AttributeError")
                   ELSE Success(euler_poincarre_log(metric, q, p, res)),
                   IF GeodesicRaises(metric) THEN <<"scipy.optimize.minimize">>
                   ELSE <<"scipy.optimize.minimize", "group.to_tangent">>)
    /\ UNCHANGED metric

\* one pass of the integrator's loop
IntegratorStep ==
    /\ op = "euler_poincarre_geodesic" /\ result = None
    /\ integ.k < args.n_steps
    /\ LET s == integrator_step(metric, args.step, <<integ.position, integ.velocity>>,
                                <<1, args.n_steps>>)
       IN  integ' = [position |-> s[1], velocity |-> s[2], k |-> integ.k + 1]
    /\ UNCHANGED <<metric, op, args, inputs, result, calls>>

\* integrate returns the flow; the geodesic returns its last position
GeodesicReturn ==
    /\ op = "euler_poincarre_geodesic" /\ result = None
    /\ integ.k = args.n_steps
    /\ result' = Success(integ.position)
    /\ UNCHANGED <<metric, op, args, inputs, calls, integ>>

\* the caller takes the result (or the exception)
Return ==
    /\ op # "idle" /\ result # None
    /\ op' = "idle" /\ args' = None /\ inputs' = None
    /\ result' = None /\ calls' = <<>> /\ integ' = None
    /\ UNCHANGED metric

Next ==
    \/ ConstructInvariantMetric
    \/ ConstructBiInvariantMetric
    \/ CallInnerProduct
    \/ CallMetricMatrix
    \/ CallExpFromIdentity
    \/ CallExp
    \/ CallLogFromIdentity
    \/ CallLog
    \/ CallCurvatureAtIdentity
    \/ CallSectionalCurvatureAtIdentity
    \/ CallEulerPoincarreGeodesic
    \/ CallEulerPoincarreLog
    \/ CallConnection
    \/ CallCurvature
    \/ CallCurvatureDerivative
    \/ IntegratorStep
    \/ GeodesicReturn
    \/ Return

Spec == Init /\ [][Next]_vars

(***************************************************************************)
(* Properties of the inner product                                         *)
(***************************************************************************)
\* the inner product just returned, with its two vectors exchanged (on a
\* group whose point type the inner product knows: on another one both
\* orders fail alike)
SwappedInnerProduct ==
    inner_product(metric, args.tangent_vec_b, args.tangent_vec_a, args.base_point)

\* C1, as stated: for every metric the constructor accepts, every base point
\* (the omitted one included) and every pair of tangent vectors u, v,
\* inner_product(u, v, p) equals inner_product(v, u, p).
C1_SymmetricForEveryAcceptedMetric ==
    (op = "inner_product" /\ ~InnerProductAtIdentityRaises(metric)) =>
        (result.ok /\ result.value = SwappedInnerProduct)

\* C1, amended: for every accepted metric whose matrix at identity is
\* symmetric, every base point (the omitted one included) and every pair of
\* tangent vectors u, v, inner_product(u, v, p) equals inner_product(v, u, p).
C1_SymmetricForSymmetricMatrix ==
    (op = "inner_product" /\ ~InnerProductAtIdentityRaises(metric)
     /\ IsSymmetric(metric.metric_mat_at_identity)) =>
        (result.ok /\ result.value = SwappedInnerProduct)

\* a nonzero inner product of two different vectors at a base point of the
\* Heisenberg group, under a symmetric matrix other than the identity
C1_Witness ==
    /\ op = "inner_product"
    /\ metric.group.kind = "heis"
    /\ IsSymmetric(metric.metric_mat_at_identity)
    /\ metric.metric_mat_at_identity # Eye(3)
    /\ args.base_point # None
    /\ args.base_point # VZero(3)
    /\ args.tangent_vec_a # args.tangent_vec_b
    /\ result.ok
    /\ result.value # Zero

(***************************************************************************)
(* Properties of the closed-form exponential and logarithm                 *)
(***************************************************************************)
\* the closed form runs: InvariantMetric's own exp and log, on vector points
ClosedFormFamily ==
    /\ metric.cls = "InvariantMetric"
    /\ metric.group.default_point_type = "vector"

\* log undoes the exp just returned
LogOfExpIsVector ==
    /\ result.ok
    /\ ~ClosedFormLogRaises(metric)
    /\ log(metric, result.value, args.base_point) = args.tangent_vec

\* exp undoes the log just returned
ExpOfLogIsPoint ==
    /\ result.ok
    /\ exp(metric, result.value, args.base_point) = args.point

\* C2, as stated: for the closed-form family, both orientations, every base
\* point p, every tangent vector v and every point q, log(exp(v, p), p) = v
\* and exp(log(q, p), p) = q.
C2_MutuallyInverseEverywhere ==
    /\ (op = "exp" /\ ClosedFormFamily /\ LogModelled(metric)) => LogOfExpIsVector
    /\ (op = "log" /\ ClosedFormFamily /\ ExpModelled(metric)) => ExpOfLogIsPoint

\* a vector group whose regularization is the identity map, under a
\* symmetric positive definite matrix
RegularMetric ==
    /\ ClosedFormFamily
    /\ metric.group.kind \in {"euclid", "heis"}
    /\ IsSymmetric(metric.metric_mat_at_identity)
    /\ metric.signature = <<metric.dim, 0, 0>>

\* C2, amended: for the closed-form family on a vector group whose
\* regularization is the identity map, with a symmetric positive definite
\* matrix at identity, for both orientations, every base point p, every
\* tangent vector v and every point q, log(exp(v, p), p) = v and
\* exp(log(q, p), p) = q.
C2_MutuallyInverseOnRegularMetrics ==
    /\ (op = "exp" /\ RegularMetric) => LogOfExpIsVector
    /\ (op = "log" /\ RegularMetric) => ExpOfLogIsPoint

\* an exponential of a nonzero vector at a base point of the Heisenberg
\* group, right-invariant metric diag(4, 1, 9)
C2_Witness ==
    /\ op = "exp"
    /\ RegularMetric
    /\ metric.group.kind = "heis"
    /\ metric.left_or_right = "right"
    /\ metric.metric_mat_at_identity = Diag(IV(<<4, 1, 9>>))
    /\ args.base_point # None
    /\ args.base_point # VZero(3)
    /\ args.tangent_vec # VZero(3)
    /\ result.ok
    /\ result.value # args.tangent_vec

\* C10: on a vector group whose regularization is the identity map, with a
\* left-invariant metric whose matrix at identity is diagonal with positive
\* entries d_i, log_from_identity(point) has i-th coordinate
\* point_i * sqrt(1 / d_i).
C10_LogFromIdentityScalesByInverseRoot ==
    ( /\ op = "log_from_identity"
      /\ ClosedFormFamily
      /\ metric.group.kind \in {"euclid", "heis"}
      /\ metric.left_or_right = "left"
      /\ IsDiagonal(metric.metric_mat_at_identity)
      /\ \A i \in 1..metric.dim : IsPositive(metric.metric_mat_at_identity[i][i]) )
    => ( /\ result.ok
         /\ Len(result.value) = metric.dim
         /\ \A i \in 1..metric.dim :
               result.value[i] =
                   RMul(args.point[i],
                        RSqrt(RInv(metric.metric_mat_at_identity[i][i]))) )

\* diag(1, 4): log_from_identity([2, 4]) = [2, 2]
C10_Witness ==
    /\ op = "log_from_identity"
    /\ metric.cls = "InvariantMetric"
    /\ metric.group.kind = "euclid"
    /\ metric.left_or_right = "left"
    /\ metric.metric_mat_at_identity = Diag(IV(<<1, 4>>))
    /\ args.point = IV(<<2, 4>>)
    /\ result = Success(IV(<<2, 2>>))

(***************************************************************************)
(* Properties of the bi-invariant metric                                   *)
(***************************************************************************)
\* C3: constructing a BiInvariantMetric on a group that is not a (special)
\* orthogonal group fails with a configuration error, and no instance is
\* returned.
C3_OtherGroupsRejected ==
    (op = "BiInvariantMetric" /\ ~IsSpecialOrthogonal(args.group)) =>
        (~result.ok /\ result.error = "ValueError" /\ metric = None)

\* C4: constructing a BiInvariantMetric on a rotation group succeeds; the
\* instance has the identity matrix of size group.dim as its matrix at
\* identity, and the orientation 'left'.
C4_RotationGroupAccepted ==
    (op = "BiInvariantMetric" /\ IsSpecialOrthogonal(args.group)) =>
        ( /\ result.ok
          /\ metric = result.value
          /\ metric.cls = "BiInvariantMetric"
          /\ metric.group = args.group
          /\ metric.metric_mat_at_identity = Eye(args.group.dim)
          /\ metric.left_or_right = "left" )

\* the constructor has returned an instance on the rotations of the plane
C4_Witness ==
    /\ op = "BiInvariantMetric"
    /\ args.group = G_SO2Vec
    /\ result.ok
    /\ metric.metric_mat_at_identity = Eye(1)

Called(name) == \E i \in 1..Len(calls) : calls[i] = name

\* C9: for a BiInvariantMetric, exp_from_identity(v) is group.exp(v) and
\* log_from_identity(p) is group.log(p); exp and log at any base point reach
\* the identity through these overrides and never take a matrix square root.
C9_OverridesUsed ==
    (metric # None /\ metric.cls = "BiInvariantMetric") =>
        /\ op = "exp_from_identity" =>
              ( /\ result = Success(GroupExp(metric.group, args.tangent_vec))
                /\ calls = <<"group.exp">> )
        /\ op = "log_from_identity" =>
              ( /\ result = Success(GroupLog(metric.group, args.point))
                /\ calls = <<"group.log">> )
        /\ op = "exp" =>
              (result.ok /\ Called("group.exp") /\ ~Called("gs.linalg.sqrtm"))
        /\ op = "log" =>
              (result.ok /\ Called("group.log") /\ ~Called("gs.linalg.sqrtm"))

\* an exponential away from the identity under a bi-invariant metric
C9_Witness ==
    /\ metric # None
    /\ metric.cls = "BiInvariantMetric"
    /\ IsSpecialOrthogonal(metric.group)
    /\ op = "exp"
    /\ args.base_point # None
    /\ ~AllClose(metric.group, GroupRegularize(metric.group, args.base_point),
                 GroupIdentity(metric.group))
    /\ args.tangent_vec # VZero(metric.dim)
    /\ Called("group.tangent_translation_map")
    /\ Called("group.exp")
    /\ result.ok

(***************************************************************************)
(* Properties of the curvature at the identity                             *)
(***************************************************************************)
\* two matrices are linearly dependent: all 2 x 2 minors of the pair vanish
LinearlyDependent(x, y) ==
    \A i \in 1..Len(x), j \in 1..Len(x), k \in 1..Len(x), l \in 1..Len(x) :
        RMul(x[i][j], y[k][l]) = RMul(x[k][l], y[i][j])

\* the curvature is defined: the metric was given a Lie algebra
SectionalCall ==
    op = "sectional_curvature_at_identity" /\ metric.lie_algebra # None

\* C5: for linearly dependent tangent vectors x, y at identity (y = c * x,
\* or one of them zero), sectional_curvature_at_identity(x, y) returns 0,
\* not an error.
C5_DependentVectorsGiveZero ==
    (SectionalCall /\ LinearlyDependent(args.tangent_vec_a, args.tangent_vec_b)) =>
        result = Success(Zero)

\* y = x / 2 with x nonzero: the denominator the code computes is not zero
C5_Witness ==
    /\ SectionalCall
    /\ args.tangent_vec_a = MScale(R(2), E(1, 2))
    /\ args.tangent_vec_b = E(1, 2)
    /\ ~IsCloseToZero(sectional_curvature_denom(metric, args.tangent_vec_a,
                                                args.tangent_vec_b))
    /\ result = Success(Zero)

\* |x|^2 |y|^2 - <x, y>^2
GramDeterminant(m, x, y) ==
    Only({RSub(RMul(xx, yy), RMul(xy, xy))
          : xx \in {squared_norm(m, x)},
            yy \in {squared_norm(m, y)},
            xy \in {inner_product(m, x, y, None)}})

\* <R(x, y) x, y>
CurvatureNumerator(m, x, y) ==
    Only({inner_product(m, curvature_xyx, y, None)
          : curvature_xyx \in {curvature_at_identity(m, x, y, x)}})

\* C6: for tangent vectors x, y at identity whose denominator is not near
\* zero, sectional_curvature_at_identity(x, y) equals
\* <R(x, y) x, y> / (|x|^2 |y|^2 - <x, y>^2).
C6_SectionalCurvatureFormula ==
    SectionalCall =>
        Only({IsCloseToZero(gram)
              \/ result = Success(RDiv(CurvatureNumerator(metric, args.tangent_vec_a,
                                                          args.tangent_vec_b), gram))
              : gram \in {GramDeterminant(metric, args.tangent_vec_a,
                                          args.tangent_vec_b)}})

GeodesicAtRest ==
    /\ op = "euler_poincarre_geodesic"
    /\ metric.lie_algebra # None
    /\ args.tangent_vec = MZero(metric.group.n)

\* C8: for every base point, every n_steps >= 0 and every scheme, the
\* geodesic with zero tangent vector returns base_point: the integrator's
\* state stays (base_point, 0) after every step.
C8_RestingGeodesicStays ==
    GeodesicAtRest =>
        ( /\ integ.position = args.base_point
          /\ integ.velocity = MZero(metric.group.n)
          /\ (result # None => result = Success(args.base_point)) )

\* two Runge-Kutta steps taken from a base point other than the identity
C8_Witness ==
    /\ GeodesicAtRest
    /\ args.step = "group_rk4"
    /\ args.n_steps = 2
    /\ integ.k = 2
    /\ args.base_point # Eye(2)
    /\ result = Success(args.base_point)

(***************************************************************************)
(* Properties of the constructor                                           *)
(***************************************************************************)
\* C11: constructing an InvariantMetric with a left_or_right other than
\* 'left' or 'right' fails at construction, so every instance an operation
\* runs on has left_or_right in {'left', 'right'}.
C11_OrientationCheckedAtConstruction ==
    /\ (op = "InvariantMetric" /\ args.left_or_right \notin {"left", "right"}) =>
           (~result.ok /\ result.error = "ValueError" /\ metric = None)
    /\ metric # None => metric.left_or_right \in {"left", "right"}

\* a construction with left_or_right = 'both' has failed
C11_Witness ==
    /\ op = "InvariantMetric"
    /\ args.left_or_right = "both"
    /\ ~result.ok
    /\ metric = None

\* C19: the signature (n_pos, n_null, n_neg) counts each eigenvalue once:
\* n_pos + n_null + n_neg is the dimension of the matrix.
C19_SignaturePartitionsEigenvalues ==
    metric # None =>
        metric.signature[1] + metric.signature[2] + metric.signature[3]
            = Len(metric.metric_mat_at_identity)

(***************************************************************************)
(* Properties of the point type checks                                     *)
(***************************************************************************)
\* C12: when the group's default_point_type is neither 'vector' nor
\* 'matrix', every inner product, with or without a base point, fails with
\* an unsupported point type error and returns no value.
C12_UnknownPointTypeRejected ==
    (op = "inner_product"
     /\ metric.group.default_point_type \notin {"vector", "matrix"}) =>
        (~result.ok /\ result.error = "ValueError")

\* inner products on the group of point type 'tensor', at a base point
C12_Witness ==
    /\ op = "inner_product"
    /\ metric.group = G_Tensor
    /\ args.base_point # None
    /\ args.tangent_vec_a = E(1, 2)
    /\ args.tangent_vec_b = E(1, 2)
    /\ ~result.ok

\* C13: on a matrix-type group, metric_matrix fails with NotImplementedError
\* for every base_point, given or omitted, before it calls regularize or
\* jacobian_translation on the group.
C13_MetricMatrixNotImplementedForMatrices ==
    (op = "metric_matrix" /\ metric.group.default_point_type = "matrix") =>
        ( /\ ~result.ok
          /\ result.error = "NotImplementedError"
          /\ calls = <<>> )

\* metric_matrix at a given base point of GL(2)
C13_Witness ==
    /\ op = "metric_matrix"
    /\ metric.group = G_GL
    /\ args.base_point # None
    /\ ~result.ok
    /\ calls = <<>>

(***************************************************************************)
(* What a call leaves unchanged                                            *)
(***************************************************************************)
\* C14: no call of an operation, whether it succeeds or fails, changes the
\* instance (group, lie_algebra, metric_mat_at_identity, left_or_right,
\* signature) or the arrays the caller passed.
C14_CallsChangeNothing ==
    [][ /\ metric # None => metric' = metric
        /\ inputs' = args' ]_vars

\* an inner product at the identity of GL(2) that has run the in-place
\* product of line 100
C14_Witness ==
    /\ op = "inner_product"
    /\ metric.group = G_GL
    /\ metric.lie_algebra # None
    /\ metric.metric_mat_at_identity = Diag(IV(<<1, 4, 4, 1>>))
    /\ args.base_point = None
    /\ args.tangent_vec_a = E(1, 2)
    /\ args.tangent_vec_b = MScale(R(2), E(1, 2))
    /\ inputs = args
    /\ result = Success(R(8))

(***************************************************************************)
(* Properties of the Euler-Poincare logarithm                              *)
(***************************************************************************)
\* C15: whatever the optimizer reports (converged or not),
\* euler_poincarre_log returns the optimizer's solution, reshaped to the
\* input's shape and projected by group.to_tangent at base_point, and
\* raises no error for a failure to converge.
C15_LogReturnsOptimizerSolution ==
    (op = "euler_poincarre_log" /\ metric.lie_algebra # None) =>
        result = Success(GroupToTangent(metric.group,
                                        Reshape(args.res.x, Len(args.base_point)),
                                        args.base_point))

\* the optimizer stopped without converging, on a solution that is not zero
C15_Witness ==
    /\ op = "euler_poincarre_log"
    /\ metric.lie_algebra # None
    /\ ~args.res.success
    /\ args.res.x = Flatten(IM(<<<<0, 2>>, <<0, 0>>>>))
    /\ args.base_point # Eye(2)
    /\ result = Success(IM(<<<<0, 2>>, <<0, 0>>>>))

(***************************************************************************)
(* Properties of the exponential at a base point                           *)
(***************************************************************************)
\* exp returned a point: the closed form accepts the group's point type
ExpCall == op = "exp" /\ result.ok

\* the inverse tangent-translation map at p with the metric's orientation
TranslateToIdentity(m, p, v) ==
    GroupTangentTranslation(m.group, p, m.left_or_right, TRUE, v)

\* regularize(p o exp_from_identity(T(v))) for a left metric,
\* regularize(exp_from_identity(T(v)) o p) for a right metric
ExpThroughIdentity(m, v, p) ==
    LET exp_from_id == exp_from_identity(m, TranslateToIdentity(m, p, v))
    IN  GroupRegularize(m.group,
            IF m.left_or_right = "left" THEN GroupCompose(m.group, p, exp_from_id)
            ELSE GroupCompose(m.group, exp_from_id, p))

\* neither a translation nor a composition was asked of the group
NoTranslationNoComposition ==
    \A i \in 1..Len(calls) :
        calls[i] \notin {"group.tangent_translation_map", "group.compose"}

\* C16 as stated: when base_point is omitted or equal to the identity, exp
\* returns exp_from_identity(v) with no translation or composition;
\* otherwise it returns regularize(base_point o exp_from_identity(T(v)))
\* for a left metric and regularize(exp_from_identity(T(v)) o base_point)
\* for a right metric.
C16_ExpAtExactIdentityOnly ==
    ExpCall =>
        IF args.base_point = None THEN
            result.value = exp_from_identity(metric, args.tangent_vec)
            /\ NoTranslationNoComposition
        ELSE IF args.base_point = GroupIdentity(metric.group) THEN
            result.value = exp_from_identity(metric, args.tangent_vec)
            /\ NoTranslationNoComposition
        ELSE result.value = ExpThroughIdentity(metric, args.tangent_vec, args.base_point)

\* C16, amended: when base_point is omitted or, once regularized, equal to
\* the identity within the tolerance of gs.allclose, exp returns
\* exp_from_identity(v) with no translation or composition; otherwise it
\* returns regularize(b o exp_from_identity(T(v))) for a left metric and
\* regularize(exp_from_identity(T(v)) o b) for a right metric, where b is
\* the regularized base point and T the inverse tangent-translation map at b
\* with the metric's own orientation.
C16_ExpAtIdentityWithinTolerance ==
    ExpCall =>
        IF args.base_point = None THEN
            result.value = exp_from_identity(metric, args.tangent_vec)
            /\ NoTranslationNoComposition
        ELSE IF AllClose(metric.group, GroupRegularize(metric.group, args.base_point),
                         GroupIdentity(metric.group)) THEN
            result.value = exp_from_identity(metric, args.tangent_vec)
            /\ NoTranslationNoComposition
        ELSE /\ result.value =
                    ExpThroughIdentity(metric, args.tangent_vec,
                                       GroupRegularize(metric.group, args.base_point))
             /\ ~NoTranslationNoComposition

\* a right-invariant metric on the Heisenberg group, away from the identity,
\* where the two sides of the composition give different points
C16_Witness ==
    /\ ExpCall
    /\ metric.group = G_Heis
    /\ metric.left_or_right = "right"
    /\ args.base_point # None
    /\ args.base_point # GroupIdentity(metric.group)
    /\ LET exp_from_id ==
               exp_from_identity(metric, TranslateToIdentity(metric, args.base_point,
                                                             args.tangent_vec))
       IN  /\ GroupCompose(metric.group, exp_from_id, args.base_point)
                # GroupCompose(metric.group, args.base_point, exp_from_id)
           /\ result.value = GroupCompose(metric.group, exp_from_id, args.base_point)

(***************************************************************************)
(* The inner product at a base point and the inner product at the identity *)
(***************************************************************************)
\* C17: for the point types 'vector' and 'matrix', both orientations and
\* every given base point p, inner_product(u, v, p) equals
\* inner_product_at_identity(T(u), T(v)), T being the inverse
\* tangent-translation map at p with the metric's orientation; when the
\* base point is omitted, inner_product(u, v) equals
\* inner_product_at_identity(u, v).
C17_InnerProductIsPulledBackToIdentity ==
    (op = "inner_product" /\ ~InnerProductAtIdentityRaises(metric)) =>
        result =
            Success(IF args.base_point = None
                    THEN inner_product_at_identity(metric, args.tangent_vec_a,
                                                   args.tangent_vec_b)
                    ELSE inner_product_at_identity(
                             metric,
                             GroupTangentTranslation(metric.group, args.base_point,
                                                     metric.left_or_right, TRUE,
                                                     args.tangent_vec_a),
                             GroupTangentTranslation(metric.group, args.base_point,
                                                     metric.left_or_right, TRUE,
                                                     args.tangent_vec_b)))

\* a vector group whose translations are not linear, at a base point where
\* the value differs from the one at the identity
C17_Witness ==
    /\ op = "inner_product"
    /\ metric.group = G_Heis
    /\ metric.left_or_right = "right"
    /\ args.base_point # None
    /\ result.ok
    /\ result.value # inner_product_at_identity(metric, args.tangent_vec_a,
                                                args.tangent_vec_b)
    /\ GroupTangentTranslation(metric.group, args.base_point, "right", TRUE,
                               args.tangent_vec_a) # args.tangent_vec_a

(***************************************************************************)
(* Connection, curvature and its derivative at a base point                *)
(***************************************************************************)
\* one of the three operations returned a value
LiftedCall == op \in {"connection", "curvature", "curvature_derivative"} /\ result.ok

\* the tangent vectors it was given, in order
LiftedInputs ==
    CASE op = "connection" -> <<args.tangent_vec_a, args.tangent_vec_b>>
      [] op = "curvature" ->
            <<args.tangent_vec_a, args.tangent_vec_b, args.tangent_vec_c>>
      [] op = "curvature_derivative" ->
            <<args.tangent_vec_a, args.tangent_vec_b, args.tangent_vec_c,
              args.tangent_vec_d>>

\* the operation at the identity
AtIdentity(m, v) ==
    CASE Len(v) = 2 -> connection_at_identity(m, v[1], v[2])
      [] Len(v) = 3 -> curvature_at_identity(m, v[1], v[2], v[3])
      [] Len(v) = 4 -> curvature_derivative_at_identity(m, v[1], v[2], v[3], v[4])

\* the name of the operation at the identity
AtIdentityName ==
    CASE op = "connection" -> "connection_at_identity"
      [] op = "curvature" -> "curvature_at_identity"
      [] op = "curvature_derivative" -> "curvature_derivative_at_identity"

\* positions of a call in the trace
Positions(call) == {i \in 1..Len(calls) : calls[i] = call}

\* C18: for connection, curvature and curvature_derivative: without a base
\* point the operation at the identity is applied directly and the group's
\* tangent_translation_map is never called; with a base point every input
\* is first mapped by the inverse translation map, the operation at the
\* identity is applied to the mapped vectors, and the single result is then
\* mapped by the forward translation map at the same base point with the
\* same orientation.
C18_LiftedThroughIdentity ==
    LiftedCall =>
        IF args.base_point = None
        THEN /\ result.value = AtIdentity(metric, LiftedInputs)
             /\ calls = <<AtIdentityName>>
        ELSE /\ result.value =
                    GroupTangentTranslation(
                        metric.group, args.base_point, metric.left_or_right, FALSE,
                        AtIdentity(metric,
                                   T([i \in 1..Len(LiftedInputs) |->
                                        GroupTangentTranslation(
                                            metric.group, args.base_point,
                                            metric.left_or_right, TRUE,
                                            LiftedInputs[i])])))
             /\ Cardinality(Positions(ApplyInverse)) = Len(LiftedInputs)
             /\ Cardinality(Positions(ApplyForward)) = 1
             /\ Cardinality(Positions(AtIdentityName)) = 1
             /\ \A i \in Positions(ApplyInverse), j \in Positions(AtIdentityName),
                   k \in Positions(ApplyForward) :
                    /\ \E h \in Positions(MapInverse) : h < i
                    /\ i < j
                    /\ j < k
                    /\ \E h \in Positions(MapForward) : h < k

\* the curvature of a right-invariant metric at a base point where it is
\* neither zero nor what it is at the identity
C18_Witness ==
    /\ LiftedCall
    /\ op = "curvature"
    /\ metric.left_or_right = "right"
    /\ args.base_point # None
    /\ result.value # MZero(2)
    /\ result.value # curvature_at_identity(metric, args.tangent_vec_a,
                                            args.tangent_vec_b, args.tangent_vec_c)
    /\ GroupTangentTranslation(metric.group, args.base_point, "right", TRUE,
                               args.tangent_vec_c) # args.tangent_vec_c

=============================================================================
